---- MODULE Spec2Model ----
(***************************************************************************)
(* Model of schnetpack/md/parsers/orca_parser.py: the line-wise property   *)
(* parser (OrcaPropertyParser), the formatter (OrcaFormatter), the output  *)
(* parser that drives them over a file (OrcaOutputParser), the tensor      *)
(* reconstruction functions and OrcaParser._parse_molecule over the main   *)
(* and the Hessian file of a molecule.                                     *)
(*                                                                         *)
(* Python strings are sequences of one-character strings, so that strip,   *)
(* startswith, split, int() and float() are computed as Python computes    *)
(* them.  Python's None is the record None; a list is List(items).         *)
(***************************************************************************)
EXTENDS Integers, Sequences, FiniteSets, TLC

VARIABLES
    start,      \* OrcaPropertyParser.start  (one parser on its own)
    stop,       \* OrcaPropertyParser.stop
    read,       \* OrcaPropertyParser.read
    parsed,     \* OrcaPropertyParser.parsed
    fed,        \* history: the lines passed to parse_line since the last reset
    default,    \* OrcaFormatter.default of the formatters of the output parser
    parsers,    \* OrcaOutputParser.parsers: the fields of each property parser
    matrix_dim, \* OrcaFormatter.matrix_dim of each parser's formatters
    out_parsed, \* OrcaOutputParser.parsed
    raised,     \* the exception the last parse_file call raised, or None
    scanned,    \* history: the lines of the file of the last parse_file call
    mat_dim,    \* the dimension d of the matrix given to the matrix formatter
    mat_width,  \* the width w of the column blocks it is printed in
    mat,        \* the matrix, as its rows
    mat_out,    \* what format returned for the printed matrix, once called
    fmt,        \* one OrcaFormatter on its own: the fields __init__ sets
    fmt_dim,    \* its matrix_dim
    fmt_dim0,   \* history: its matrix_dim before the last format call
    fmt_buffer, \* history: the argument of the last format call
    fmt_out,    \* what the last format call returned or raised, once called
    fmt_calls,  \* the number of format calls so far
    rs_kind,    \* which tensor reconstruction function is called
    rs_in,      \* its argument
    rs_out,     \* what it returned, once called
    mol_hessian,    \* OrcaParser: whether Hessian properties were requested
    mol_sections,   \* the sections the files of the molecule hold
    mol_converged,  \* whether the main file has the termination flag
    mol_hess_file,  \* whether the Hessian file exists
    mol_out         \* what _parse_molecule returned or raised, once called

aloneVars == <<start, stop, read, parsed, fed>>
outputVars == <<default, parsers, matrix_dim, out_parsed, raised, scanned>>
matrixVars == <<mat_dim, mat_width, mat, mat_out>>
formatVars == <<fmt, fmt_dim, fmt_dim0, fmt_buffer, fmt_out, fmt_calls>>
reshapeVars == <<rs_kind, rs_in, rs_out>>
moleculeVars == <<mol_hessian, mol_sections, mol_converged, mol_hess_file, mol_out>>
laterVars == <<formatVars, reshapeVars, moleculeVars>>
vars == <<aloneVars, outputVars, matrixVars, laterVars>>

------------------------------------------------------------------------------
(* Python values *)

None == [tag |-> "None"]
List(items) == [tag |-> "list", items |-> items]
Str(s) == [tag |-> "str", s |-> s]

------------------------------------------------------------------------------
(* Python str methods *)

Whitespace == {" "}

RECURSIVE lstrip(_)
lstrip(s) == IF Len(s) > 0 /\ s[1] \in Whitespace THEN lstrip(Tail(s)) ELSE s

RECURSIVE rstrip(_)
rstrip(s) ==
    IF Len(s) > 0 /\ s[Len(s)] \in Whitespace
    THEN rstrip(SubSeq(s, 1, Len(s) - 1))
    ELSE s

strip(s) == rstrip(lstrip(s))

startswith(s, prefix) ==
    Len(prefix) <= Len(s) /\ SubSeq(s, 1, Len(prefix)) = prefix

------------------------------------------------------------------------------
(* OrcaPropertyParser *)

\* the literal "---------" of parse_line
DashRun == 9
Dashes == [i \in 1..DashRun |-> "-"]

\* is_skipped with the separator test left out
is_skipped_blank_only(line) == Len(line) = 0

\* first branch of parse_line: separator and blank lines are passed over
is_skipped(line) == startswith(line, Dashes) \/ Len(line) = 0

\* second branch of parse_line: a start line (re)opens the window
on_start(stopcfg, line) ==
    IF stopcfg = None
    THEN [read |-> FALSE, parsed |-> List(<<line>>)]
    ELSE [read |-> TRUE, parsed |-> List(<<>>)]

\* the loop "for stop in self.stop" of parse_line: the value of self.read after it
RECURSIVE stop_loop(_, _, _)
stop_loop(stops, line, rd) ==
    IF stops = <<>> THEN rd
    ELSE stop_loop(Tail(stops), line,
                   IF rd /\ startswith(line, Head(stops)) THEN FALSE ELSE rd)

\* on_reading with the stop line appended before the window closes
on_reading_keeps_stop(self, stopcfg, line) ==
    [read |-> IF stopcfg.tag = "list"
              THEN stop_loop(stopcfg.items, line, self.read)
              ELSE ~startswith(line, stopcfg.s),
     parsed |-> List(Append(self.parsed.items, line))]

\* third branch of parse_line: a line seen while self.read is set
on_reading(self, stopcfg, line) ==
    IF stopcfg.tag = "list"
    THEN LET rd == stop_loop(stopcfg.items, line, self.read) IN
         IF rd
         THEN [read |-> rd, parsed |-> List(Append(self.parsed.items, line))]
         ELSE [read |-> rd, parsed |-> self.parsed]
    ELSE IF startswith(line, stopcfg.s)
         THEN [read |-> FALSE, parsed |-> self.parsed]
         ELSE [read |-> self.read, parsed |-> List(Append(self.parsed.items, line))]

\* parse_line with a start line honoured only outside an open window
parse_line_no_restart(self, startcfg, stopcfg, rawline) ==
    LET line == strip(rawline) IN
    IF is_skipped(line) THEN self
    ELSE IF ~self.read /\ self.parsed = None /\ startswith(line, startcfg)
         THEN on_start(stopcfg, line)
    ELSE IF self.read THEN on_reading(self, stopcfg, line)
    ELSE self

\* parse_line with the stop markers tested before the start marker
parse_line_stop_first(self, startcfg, stopcfg, rawline) ==
    LET line == strip(rawline) IN
    IF is_skipped(line) THEN self
    ELSE IF self.read /\ on_reading(self, stopcfg, line) = [read |-> FALSE, parsed |-> self.parsed]
         THEN on_reading(self, stopcfg, line)
    ELSE IF startswith(line, startcfg) THEN on_start(stopcfg, line)
    ELSE IF self.read THEN on_reading(self, stopcfg, line)
    ELSE self

\* OrcaPropertyParser.parse_line: the parser's fields after the call
parse_line(self, startcfg, stopcfg, rawline) ==
    LET line == strip(rawline) IN
    IF is_skipped(line) THEN self
    ELSE IF startswith(line, startcfg) THEN on_start(stopcfg, line)
    ELSE IF self.read THEN on_reading(self, stopcfg, line)
    ELSE self

\* OrcaPropertyParser.__init__: the fields of a new parser
parser_init == [read |-> FALSE, parsed |-> None]

\* reset with the buffer left as it is
reset_keeps_buffer == [read |-> FALSE, parsed |-> parsed]

\* OrcaPropertyParser.reset: the fields after the call
reset == [read |-> FALSE, parsed |-> None]

------------------------------------------------------------------------------
(* Python values of the formatter: numbers, exceptions, numpy arrays *)

Num(n) == [tag |-> "num", v |-> n]
Ok(v) == [tag |-> "ok", v |-> v]
Raise(exc) == [tag |-> "raise", exc |-> exc]
IsRaise(r) == r.tag = "raise"

\* a numpy array: its shape, element type and (nested) elements
Array(shape, dtype, data) ==
    [tag |-> "array", shape |-> shape, dtype |-> dtype, data |-> data]

\* what np.array makes of rows of unequal length: an object array of lists,
\* or from numpy 1.24 on a ValueError; either way no rectangular array
Ragged(data) == [tag |-> "ragged", data |-> data]

\* str.split(): the whitespace-separated tokens
RECURSIVE split_acc(_, _, _)
split_acc(s, cur, out) ==
    IF s = <<>> THEN (IF cur = <<>> THEN out ELSE Append(out, cur))
    ELSE IF Head(s) \in Whitespace
         THEN split_acc(Tail(s), <<>>, IF cur = <<>> THEN out ELSE Append(out, cur))
         ELSE split_acc(Tail(s), Append(cur, Head(s)), out)

split(s) == split_acc(s, <<>>, <<>>)

Digits == <<"0", "1", "2", "3", "4", "5", "6", "7", "8", "9">>
IsDigit(c) == \E i \in 1..Len(Digits) : Digits[i] = c
DigitValue(c) == (CHOOSE i \in 1..Len(Digits) : Digits[i] = c) - 1

RECURSIVE digits_value(_, _)
digits_value(s, acc) ==
    IF s = <<>> THEN acc ELSE digits_value(Tail(s), 10 * acc + DigitValue(Head(s)))

\* int(token) and float(token) on signed decimal integers; any other token
\* of the model's alphabet is a ValueError
to_number(tok) ==
    LET neg == Len(tok) > 0 /\ tok[1] = "-"
        body == IF neg THEN Tail(tok) ELSE tok
    IN IF Len(body) > 0 /\ \A i \in 1..Len(body) : IsDigit(body[i])
       THEN Ok(IF neg THEN 0 - digits_value(body, 0) ELSE digits_value(body, 0))
       ELSE Raise("ValueError")

\* self.converter(x): float or str
convert(converter, tok) == IF converter = "str" THEN Ok(tok) ELSE to_number(tok)

\* [self.converter(x) for x in toks]
RECURSIVE convert_all(_, _, _)
convert_all(converter, toks, out) ==
    IF toks = <<>> THEN Ok(out)
    ELSE LET x == convert(converter, Head(toks)) IN
         IF IsRaise(x) THEN x ELSE convert_all(converter, Tail(toks), Append(out, x.v))

\* seq[a:b] and seq[a:] for a, b >= 0
Min(a, b) == IF a <= b THEN a ELSE b
slice(seq, a, b) == SubSeq(seq, a + 1, Min(b, Len(seq)))
slice_from(seq, a) == SubSeq(seq, a + 1, Len(seq))

SameLen(rows) == \A i, j \in 1..Len(rows) : Len(rows[i]) = Len(rows[j])

\* np.array of a list of scalars
np_array_1d(dtype, xs) == Array(<<Len(xs)>>, dtype, xs)

\* np.array of a list of lists of scalars
np_array_2d(dtype, rows) ==
    IF rows = <<>> THEN Array(<<0>>, dtype, <<>>)
    ELSE IF SameLen(rows) THEN Array(<<Len(rows), Len(rows[1])>>, dtype, rows)
    ELSE Ragged(rows)

\* np.array of a list of lists of lists of scalars
np_array_3d(dtype, blocks) ==
    IF blocks = <<>> THEN Array(<<0>>, dtype, <<>>)
    ELSE IF ~SameLen(blocks) THEN Ragged(blocks)
    ELSE IF blocks[1] = <<>> THEN Array(<<Len(blocks), 0>>, dtype, blocks)
    ELSE IF \A i \in 1..Len(blocks) :
                SameLen(blocks[i]) /\ Len(blocks[i][1]) = Len(blocks[1][1])
         THEN Array(<<Len(blocks), Len(blocks[1]), Len(blocks[1][1])>>, dtype, blocks)
    ELSE Ragged(blocks)

RECURSIVE Product(_)
Product(shape) == IF shape = <<>> THEN 1 ELSE Head(shape) * Product(Tail(shape))

\* elementwise product of nested sequences of numbers
RECURSIVE scale(_, _, _)
scale(data, depth, u) ==
    IF depth = 0 THEN data * u
    ELSE [i \in 1..Len(data) |-> scale(data[i], depth - 1, u)]

\* numpy.ravel: the elements in row-major order
RECURSIVE ravel(_, _)
ravel(data, depth) ==
    IF depth = 0 THEN <<data>>
    ELSE IF data = <<>> THEN <<>>
    ELSE ravel(Head(data), depth - 1) \o ravel(Tail(data), depth)

\* times_unit that scales the first row, element or block only
times_unit_first(formatted, u) ==
    IF formatted.tag = "ragged" THEN Ok(formatted)
    ELSE IF formatted.dtype = "str" THEN Raise("TypeError")
    ELSE Ok(Array(formatted.shape, formatted.dtype,
                  [i \in 1..Len(formatted.data) |->
                      IF i = 1 THEN scale(formatted.data[i], Len(formatted.shape) - 1, u)
                      ELSE formatted.data[i]]))

\* "formatted *= self.unit"
times_unit(formatted, u) ==
    IF formatted.tag = "ragged" THEN Ok(formatted)
    ELSE IF formatted.dtype = "str" THEN Raise("TypeError")
    ELSE Ok(Array(formatted.shape, formatted.dtype,
                  scale(formatted.data, Len(formatted.shape), u)))

------------------------------------------------------------------------------
(* OrcaFormatter *)

\* OrcaFormatter.__init__: the fields that configure a formatter
Formatter(position, stopcol, datatype, converter, skip_first, unit, dflt) ==
    [position |-> position, stop |-> stopcol, datatype |-> datatype,
     converter |-> converter, skip_first |-> skip_first, unit |-> unit,
     default |-> dflt]

\* the for loop of _format_vector: the list it builds, or the exception
RECURSIVE vector_loop(_, _, _)
vector_loop(self, lines, vector) ==
    IF lines = <<>> THEN Ok(vector)
    ELSE LET line == split(Head(lines)) IN
         IF self.stop = None
         THEN IF self.position.v >= Len(line) THEN Raise("IndexError")
              ELSE LET x == convert(self.converter, line[self.position.v + 1]) IN
                   IF IsRaise(x) THEN x
                   ELSE vector_loop(self, Tail(lines), Append(vector, x.v))
         ELSE LET row == convert_all(self.converter,
                                     slice(line, self.position.v, self.stop.v), <<>>)
              IN IF IsRaise(row) THEN row
                 ELSE vector_loop(self, Tail(lines), Append(vector, row.v))

\* squeeze without the test of vector.size
squeeze_any_size(vector) ==
    IF vector.tag = "array" /\ vector.shape[1] = 1 /\ Len(vector.shape) > 1
    THEN Array(Tail(vector.shape), vector.dtype, vector.data[1])
    ELSE vector

\* "if vector.shape[0] == 1 and vector.size != 1: vector = vector[0]"
squeeze(vector) ==
    IF vector.tag = "array" /\ vector.shape[1] = 1 /\ Product(vector.shape) # 1
    THEN Array(Tail(vector.shape), vector.dtype, vector.data[1])
    ELSE vector

\* OrcaFormatter._format_vector
format_vector(self, lines) ==
    LET vector == vector_loop(self, lines, <<>>) IN
    IF IsRaise(vector) THEN vector
    ELSE Ok(squeeze(IF self.stop = None
                    THEN np_array_1d(self.converter, vector.v)
                    ELSE np_array_2d(self.converter, vector.v)))

\* the dimension loop of _format_matrix: self.matrix_dim after it, and the
\* exception that ended it, if any
RECURSIVE dim_loop(_, _, _)
dim_loop(lines, n_entries, dim) ==
    IF lines = <<>> THEN [matrix_dim |-> dim, exc |-> None]
    ELSE LET line == split(Head(lines)) IN
         IF Len(line) # n_entries
         THEN LET n == to_number(line[1]) IN
              IF IsRaise(n) THEN [matrix_dim |-> dim, exc |-> n]
              ELSE dim_loop(Tail(lines), n_entries, Num(n.v + 1))
         ELSE dim_loop(Tail(lines), n_entries, dim)

\* "parsed[i : i + dim + 1] for i in range(0, len(parsed), dim + 1)", dim + 1 > 0
RECURSIVE chunks(_, _)
chunks(lines, step) ==
    IF lines = <<>> THEN <<>>
    ELSE <<slice(lines, 0, step)>> \o chunks(slice_from(lines, step), step)

\* the loop over block[1:]: "matrix[i] += [float(x) for x in entry.split()[1:]]"
RECURSIVE block_loop(_, _, _)
block_loop(entries, i, matrix) ==
    IF entries = <<>> THEN Ok(matrix)
    ELSE IF i > Len(matrix) THEN Raise("IndexError")
    ELSE LET row == convert_all("float", slice_from(split(Head(entries)), 1), <<>>) IN
         IF IsRaise(row) THEN row
         ELSE block_loop(Tail(entries), i + 1,
                         [matrix EXCEPT ![i] = matrix[i] \o row.v])

\* the loop "for block in subdata"
RECURSIVE subdata_loop(_, _)
subdata_loop(subdata, matrix) ==
    IF subdata = <<>> THEN Ok(matrix)
    ELSE LET m == block_loop(slice_from(Head(subdata), 1), 1, matrix) IN
         IF IsRaise(m) THEN m ELSE subdata_loop(Tail(subdata), m.v)

\* the part of _format_matrix after the dimension loop
assemble_matrix(lines, dim) ==
    IF dim = None THEN Raise("TypeError")
    ELSE IF dim.v + 1 = 0 THEN Raise("ValueError")
    ELSE LET subdata == IF dim.v + 1 < 0 THEN <<>> ELSE chunks(lines, dim.v + 1)
             empty == [i \in 1..dim.v |-> <<>>]
             matrix == subdata_loop(subdata, empty)
         IN IF IsRaise(matrix) THEN matrix ELSE Ok(np_array_2d("float", matrix.v))

\* OrcaFormatter._format_matrix: the array or exception, and self.matrix_dim
\* after the call
format_matrix(lines, dim0) ==
    IF Len(lines) < 2
    THEN [result |-> Raise("IndexError"), matrix_dim |-> dim0]
    ELSE LET n_entries == Len(split(lines[2]))
             d == dim_loop(Tail(lines), n_entries, dim0)
         IN IF d.exc # None
            THEN [result |-> d.exc, matrix_dim |-> d.matrix_dim]
            ELSE [result |-> assemble_matrix(lines, d.matrix_dim),
                  matrix_dim |-> d.matrix_dim]

\* the literals of _format_shielding
ShieldingOpen ==
    <<"T", "o", "t", "a", "l", " ", "s", "h", "i", "e", "l", "d", "i", "n", "g", " ",
      "t", "e", "n", "s", "o", "r", " ", "(", "p", "p", "m", ")", ":">>
ShieldingClose ==
    <<"D", "i", "a", "g", "o", "n", "a", "l", "i", "z", "e", "d", " ",
      "s", "T", "*", "s", " ", "m", "a", "t", "r", "i", "x", ":">>

\* the for loop of _format_shielding
RECURSIVE shielding_loop(_, _, _, _)
shielding_loop(lines, shielding, current_shielding, parse) ==
    IF lines = <<>> THEN Ok(shielding)
    ELSE LET line == Head(lines) IN
         IF startswith(line, ShieldingOpen)
         THEN shielding_loop(Tail(lines), shielding, current_shielding, TRUE)
         ELSE IF parse
         THEN IF startswith(line, ShieldingClose)
              THEN shielding_loop(Tail(lines), Append(shielding, current_shielding),
                                  <<>>, FALSE)
              ELSE LET row == convert_all("float", split(line), <<>>) IN
                   IF IsRaise(row) THEN row
                   ELSE shielding_loop(Tail(lines), shielding,
                                       Append(current_shielding, row.v), parse)
         ELSE shielding_loop(Tail(lines), shielding, current_shielding, parse)

\* OrcaFormatter._format_shielding
format_shielding(lines) ==
    LET shielding == shielding_loop(lines, <<>>, <<>>, FALSE) IN
    IF IsRaise(shielding) THEN shielding ELSE Ok(np_array_3d("float", shielding.v))

\* format_absent with "if self.default:" for "if self.default is not None:"
format_absent_truthy(self) ==
    IF self.default # None /\ self.default.v # 0
    THEN Ok(np_array_1d("float", <<self.default.v>>))
    ELSE Ok(None)

\* the "parsed is None" branch of format
format_absent(self) ==
    IF self.default # None THEN Ok(np_array_1d("float", <<self.default.v>>)) ELSE Ok(None)

\* the dispatch on self.datatype in format, and the unit
format_lines(self, lines, dim0) ==
    LET f == IF self.datatype = "vector"
             THEN [result |-> format_vector(self, lines), matrix_dim |-> dim0]
             ELSE IF self.datatype = "matrix" THEN format_matrix(lines, dim0)
             ELSE IF self.datatype = "shielding"
             THEN [result |-> format_shielding(lines), matrix_dim |-> dim0]
             ELSE [result |-> Raise("NotImplementedError"), matrix_dim |-> dim0]
    IN IF IsRaise(f.result) \/ self.unit = None THEN f
       ELSE [result |-> times_unit(f.result.v, self.unit.v), matrix_dim |-> f.matrix_dim]

\* format with the default returned for an empty buffer too
format_empty_default(self, buffer, dim0) ==
    IF buffer = None
    THEN [result |-> format_absent(self), matrix_dim |-> dim0]
    ELSE LET lines == IF self.skip_first # None
                      THEN slice_from(buffer.items, self.skip_first.v)
                      ELSE buffer.items
         IN IF Len(lines) = 0
            THEN [result |-> format_absent(self), matrix_dim |-> dim0]
            ELSE format_lines(self, lines, dim0)

\* OrcaFormatter.format: Ok(value) or the exception raised, and
\* self.matrix_dim after the call
format(self, buffer, dim0) ==
    IF buffer = None
    THEN [result |-> format_absent(self), matrix_dim |-> dim0]
    ELSE LET lines == IF self.skip_first # None
                      THEN slice_from(buffer.items, self.skip_first.v)
                      ELSE buffer.items
         IN IF Len(lines) = 0
            THEN [result |-> Ok(None), matrix_dim |-> dim0]
            ELSE format_lines(self, lines, dim0)

------------------------------------------------------------------------------
(* Tensor reconstruction: format_dipole_derivatives and                    *)
(* format_polarizability_derivatives                                       *)

\* the nested elements of the given shape, filled row-major from flat
RECURSIVE unravel(_, _)
unravel(flat, shape) ==
    IF shape = <<>> THEN flat[1]
    ELSE LET size == Product(Tail(shape)) IN
         [i \in 1..Head(shape) |->
             unravel(SubSeq(flat, (i - 1) * size + 1, i * size), Tail(shape))]

\* ndarray.reshape
reshape(property, shape) ==
    IF Product(shape) # Product(property.shape) THEN Raise("ValueError")
    ELSE Ok(Array(shape, property.dtype,
                  unravel(ravel(property.data, Len(property.shape)), shape)))

\* "N, _ = property.shape": the exception it raises, or None
unpack_shape(property) ==
    IF property = None THEN Raise("AttributeError")
    ELSE IF property.tag # "array" \/ Len(property.shape) # 2 THEN Raise("ValueError")
    ELSE None

\* format_dipole_derivatives with the last two axes exchanged
format_dipole_derivatives_transposed(property) ==
    IF unpack_shape(property) # None THEN unpack_shape(property)
    ELSE LET N == property.shape[1] \div 3 IN
         IF Product(<<N, 3, 3>>) # Product(property.shape) THEN Raise("ValueError")
         ELSE Ok(Array(<<N, 3, 3>>, property.dtype,
                       [k \in 1..N |-> [j \in 1..3 |-> [c \in 1..3 |->
                           property.data[3 * (k - 1) + c][j]]]]))

\* format_dipole_derivatives
format_dipole_derivatives(property) ==
    IF unpack_shape(property) # None THEN unpack_shape(property)
    ELSE reshape(property, <<property.shape[1] \div 3, 3, 3>>)

\* np.triu_indices(n): the pairs (i, j), i <= j, in row-major order
triu_pairs(n) == {q \in (0..(n - 1)) \X (0..(n - 1)) : q[1] <= q[2]}
triu_rank(n, q) ==
    Cardinality({r \in triu_pairs(n) : r[1] < q[1] \/ (r[1] = q[1] /\ r[2] <= q[2])})
triu_indices(n) ==
    [t \in 1..Cardinality(triu_pairs(n)) |->
        CHOOSE q \in triu_pairs(n) : triu_rank(n, q) = t]

\* np.zeros(shape)
RECURSIVE zeros(_)
zeros(shape) ==
    IF shape = <<>> THEN 0 ELSE [i \in 1..Head(shape) |-> zeros(Tail(shape))]

\* "tensor[idx[0], idx[1]] = values" on one matrix; swap exchanges idx[0], idx[1]
RECURSIVE assign_at(_, _, _, _, _)
assign_at(tensor, idx, swap, values, t) ==
    IF t > Len(idx) THEN tensor
    ELSE LET i == (IF swap THEN idx[t][2] ELSE idx[t][1]) + 1
             j == (IF swap THEN idx[t][1] ELSE idx[t][2]) + 1
         IN assign_at([tensor EXCEPT ![i][j] = values[t]], idx, swap, values, t + 1)

\* "reshaped[:, :, idx[0], idx[1]] = property"
assign_triu(reshaped, idx, swap, property) ==
    [k \in 1..Len(reshaped) |-> [d \in 1..Len(reshaped[k]) |->
        assign_at(reshaped[k][d], idx, swap, property[k][d], 1)]]

\* the part of format_polarizability_derivatives after the reshape, with the
\* second assignment left out
fill_upper_only(N, property) ==
    Ok(Array(<<N, 3, 3, 3>>, "float",
             assign_triu(zeros(<<N, 3, 3, 3>>), triu_indices(3), FALSE, property.data)))

\* the part of format_polarizability_derivatives after the reshape
fill_symmetric(N, property) ==
    Ok(Array(<<N, 3, 3, 3>>, "float",
             assign_triu(assign_triu(zeros(<<N, 3, 3, 3>>), triu_indices(3), FALSE,
                                     property.data),
                         triu_indices(3), TRUE, property.data)))

\* format_polarizability_derivatives
format_polarizability_derivatives(property) ==
    IF unpack_shape(property) # None THEN unpack_shape(property)
    ELSE LET N == property.shape[1] \div 3
             r == reshape(property, <<N, 3, 6>>)
         IN IF IsRaise(r) THEN r ELSE fill_symmetric(N, r.v)

------------------------------------------------------------------------------
(* OrcaPropertyParser.get_parsed and OrcaOutputParser *)

\* the formatters argument of OrcaPropertyParser: None, one formatter, or an
\* iterable of formatters
Single(f) == [tag |-> "single", f |-> f]
Iter(fs) == [tag |-> "iter", fs |-> fs]

\* a dict, and a list of formatted values
Dict(items) == [tag |-> "dict", items |-> items]

\* "[formatter.format(self.parsed) for formatter in self.formatters]"
RECURSIVE format_each(_, _, _, _, _)
RECURSIVE format_each_append(_, _, _, _, _, _)
format_each(fs, buffer, dims, i, out) ==
    IF i > Len(fs) THEN [result |-> Ok(List(out)), matrix_dim |-> dims]
    ELSE format_each_append(fs, buffer, dims, i, out, format(fs[i], buffer, dims[i]))

\* "formatted.append(...)" with f what the formatter returned: an exception
\* leaves the comprehension
format_each_append(fs, buffer, dims, i, out, f) ==
    IF IsRaise(f.result)
    THEN [result |-> f.result, matrix_dim |-> [dims EXCEPT ![i] = f.matrix_dim]]
    ELSE format_each(fs, buffer, [dims EXCEPT ![i] = f.matrix_dim], i + 1,
                     Append(out, f.result.v))

\* "return self.formatters.format(self.parsed)" with f what format returned
format_single(f) == [result |-> f.result, matrix_dim |-> <<f.matrix_dim>>]

\* OrcaPropertyParser.get_parsed: Ok(value) or the exception, and the
\* matrix_dim of the parser's formatters after the call
get_parsed(formatters, buffer, dims) ==
    IF formatters = None THEN [result |-> Ok(buffer), matrix_dim |-> dims]
    ELSE IF formatters.tag = "iter" THEN format_each(formatters.fs, buffer, dims, 1, <<>>)
    ELSE format_single(format(formatters.f, buffer, dims[1]))

\* "for parser in self.parsers: self.parsers[parser].reset()"
reset_all(table) == [i \in 1..Len(table) |-> reset]

\* feed_loop that leaves the loop at the first parser the line starts
RECURSIVE feed_loop_break(_, _, _, _)
feed_loop_break(table, ps, line, i) ==
    IF i > Len(table) THEN ps
    ELSE LET fed_i == [ps EXCEPT ![i] = parse_line(ps[i], table[i].start,
                                                   table[i].stop, line)]
         IN IF ~is_skipped(strip(line)) /\ startswith(strip(line), table[i].start)
            THEN fed_i
            ELSE feed_loop_break(table, fed_i, line, i + 1)

\* "for parser in self.parsers: self.parsers[parser].parse_line(line)"
RECURSIVE feed_loop(_, _, _, _)
feed_loop(table, ps, line, i) ==
    IF i > Len(table) THEN ps
    ELSE feed_loop(table,
                   [ps EXCEPT ![i] = parse_line(ps[i], table[i].start, table[i].stop, line)],
                   line, i + 1)

\* "for line in f: ..."
RECURSIVE scan_loop(_, _, _)
scan_loop(table, ps, lines) ==
    IF lines = <<>> \/ Len(ps) = 0 THEN ps
    ELSE scan_loop(table, feed_loop(table, ps, Head(lines), 1), Tail(lines))

\* "for parser in self.parsers: self.parsed[parser] = ...get_parsed()"
RECURSIVE collect_loop(_, _, _, _, _)
RECURSIVE collect_store(_, _, _, _, _, _)
collect_loop(table, ps, dims, out, i) ==
    IF i > Len(table)
    THEN [parsers |-> ps, out_parsed |-> Dict(out), matrix_dim |-> dims, raised |-> None]
    ELSE collect_store(table, ps, dims, out, i,
                       get_parsed(table[i].formatters, ps[i].parsed, dims[i]))

\* "self.parsed[parser] = ..." with g what get_parsed returned: an exception
\* leaves parse_file with self.parsed as it is
collect_store(table, ps, dims, out, i, g) ==
    IF IsRaise(g.result)
    THEN [parsers |-> ps, out_parsed |-> Dict(out),
          matrix_dim |-> [dims EXCEPT ![i] = g.matrix_dim], raised |-> g.result]
    ELSE collect_loop(table, ps, [dims EXCEPT ![i] = g.matrix_dim],
                      Append(out, g.result.v), i + 1)

\* OrcaOutputParser.parse_file: the parsers' fields, the formatters'
\* matrix_dim, self.parsed and the exception raised, after the call
parse_file(table, dims, lines) ==
    collect_loop(table, scan_loop(table, reset_all(table), lines), dims, <<>>, 1)

------------------------------------------------------------------------------
(* OrcaMainFileParser, OrcaHessianFileParser and OrcaParser._parse_molecule *)

\* a key of a dict of properties
Key(name) == [tag |-> "key", name |-> name]

\* 1.0 / units.Bohr, as an integer of the model
InvBohr == 2

\* OrcaMainFileParser.starts and .stops
MainStarts ==
    [atoms |-> <<"C", "A", "R", "T", "E", "S", "I", "A", "N", " ", "C", "O",
              "O", "R", "D", "I", "N", "A", "T", "E", "S", " ", "(", "A",
              "N", "G", "S", "T", "R", "O", "E", "M", ")">>,
     forces |-> <<"C", "A", "R", "T", "E", "S", "I", "A", "N", " ", "G", "R",
              "A", "D", "I", "E", "N", "T">>,
     energy |-> <<"F", "I", "N", "A", "L", " ", "S", "I", "N", "G", "L", "E",
              " ", "P", "O", "I", "N", "T", " ", "E", "N", "E", "R", "G",
              "Y">>]
MainStops ==
    [atoms |-> Str(<<"C", "A", "R", "T", "E", "S", "I", "A", "N", " ", "C", "O",
              "O", "R", "D", "I", "N", "A", "T", "E", "S", " ", "(", "A",
              ".", "U", ".", ")">>),
     forces |-> Str(<<"D", "i", "f", "f", "e", "r", "e", "n", "c", "e", " ", "t",
              "o", " ", "t", "r", "a", "n", "s", "l", "a", "t", "i", "o",
              "n", " ", "i", "n", "v", "a", "r", "i", "a", "n", "c", "e">>),
     energy |-> None]

\* OrcaMainFileParser.formatters
MainFormatters ==
    [atoms |-> Iter(<< Formatter(Num(0), None, "vector", "str", None, None, None),
                       Formatter(Num(1), Num(4), "vector", "float", None, Num(InvBohr),
                                 None) >>),
     energy |-> Single(Formatter(Num(4), None, "vector", "float", None, None, None)),
     forces |-> Single(Formatter(Num(3), Num(6), "vector", "float", None, Num(-1), None))]

\* the parsers of OrcaMainFileParser(properties=[energy, forces] + ["atoms"])
MainTable ==
    [i \in 1..3 |->
        LET p == <<"energy", "forces", "atoms">>[i] IN
        [name |-> Key(p), start |-> MainStarts[p], stop |-> MainStops[p],
         formatters |-> MainFormatters[p]]]

\* OrcaHessianFileParser.starts and .stops
HessianStarts ==
    [hessian |-> <<"$", "h", "e", "s", "s", "i", "a", "n">>,
     dipole_derivatives |-> <<"$", "d", "i", "p", "o", "l", "e", "_", "d", "e", "r", "i",
              "v", "a", "t", "i", "v", "e", "s">>,
     polarizability_derivatives |-> <<"$", "p", "o", "l", "a", "r", "i", "z", "a", "b", "i", "l",
              "i", "t", "y", "_", "d", "e", "r", "i", "v", "a", "t", "i",
              "v", "e", "s">>]
HessianStops ==
    [hessian |-> Str(<<"$", "v", "i", "b", "r", "a", "t", "i", "o", "n", "a", "l",
              "_", "f", "r", "e", "q", "u", "e", "n", "c", "i", "e", "s">>),
     dipole_derivatives |-> Str(<<"#">>),
     polarizability_derivatives |-> Str(<<"#">>)]

\* OrcaHessianFileParser.formatters
HessianFormatters ==
    [hessian |-> Single(Formatter(None, None, "matrix", "float", Num(1), None, None)),
     dipole_derivatives |->
         Single(Formatter(Num(0), Num(4), "vector", "float", Num(1), None, None)),
     polarizability_derivatives |->
         Single(Formatter(Num(0), Num(6), "vector", "float", Num(1), None, None))]

\* the parsers of OrcaHessianFileParser(properties=hessian_properties)
HessianTable ==
    [i \in 1..3 |->
        LET p == <<"hessian", "dipole_derivatives", "polarizability_derivatives">>[i] IN
        [name |-> Key(p), start |-> HessianStarts[p], stop |-> HessianStops[p],
         formatters |-> HessianFormatters[p]]]

\* the matrix_dim of the formatters of new parsers
new_dims(table) ==
    [i \in 1..Len(table) |->
        IF table[i].formatters.tag = "iter"
        THEN [j \in 1..Len(table[i].formatters.fs) |-> None]
        ELSE <<None>>]

\* the flag of _check_convergence
Terminated ==
    <<"*", "*", "*", "*", "O", "R", "C", "A", " ", "T", "E", "R",
              "M", "I", "N", "A", "T", "E", "D", " ", "N", "O", "R", "M",
              "A", "L", "L", "Y", "*", "*", "*", "*">>

\* OrcaParser._check_convergence, for a file of at least two lines
check_convergence(lines) == strip(lines[Len(lines) - 1]) = Terminated

\* what _parse_molecule returns or raises, and the calls it made on the way
Return(atoms, properties, calls) ==
    [atoms |-> atoms, properties |-> properties, raised |-> None, calls |-> calls]
Raised(exc, calls) ==
    [atoms |-> None, properties |-> None, raised |-> exc, calls |-> calls]
Call(fn, args) == [fn |-> fn, args |-> args]

\* ase.Atoms(symbols, positions)
Atoms(symbols, positions) ==
    [tag |-> "Atoms", symbols |-> symbols, positions |-> positions]

\* ndarray.astype(np.float32); None and a list have no astype
astype(value) ==
    IF value.tag = "array" THEN Ok(Array(value.shape, "float32", value.data))
    ELSE IF value.tag = "ragged" THEN Raise("ValueError")
    ELSE Raise("AttributeError")

RECURSIVE hessian_loop(_, _, _, _, _)
RECURSIVE hessian_store(_, _, _, _, _, _)

\* "for p in hessian_properties: ..." (lines 147-157)
hessian_loop(hessian_properties, i, atoms, properties, calls) ==
    IF i > Len(HessianTable) THEN Return(atoms, Dict(properties), calls)
    ELSE IF HessianTable[i].name = None THEN Return(atoms, None, calls)
    ELSE IF HessianTable[i].name = Key("dipole_derivatives")
    THEN hessian_store(hessian_properties, i, atoms, properties,
                       Append(calls, Call("format_dipole_derivatives",
                                          <<hessian_properties.items[i]>>)),
                       format_dipole_derivatives(hessian_properties.items[i]))
    ELSE IF HessianTable[i].name = Key("polarizability_derivatives")
    THEN hessian_store(hessian_properties, i, atoms, properties,
                       Append(calls, Call("format_polarizability_derivatives",
                                          <<hessian_properties.items[i]>>)),
                       format_polarizability_derivatives(hessian_properties.items[i]))
    ELSE hessian_store(hessian_properties, i, atoms, properties, calls,
                       Ok(hessian_properties.items[i]))

\* "properties[p] = ..." with r the value or the exception of the right side
hessian_store(hessian_properties, i, atoms, properties, calls, r) ==
    IF IsRaise(r) THEN Raised(r, calls)
    ELSE hessian_loop(hessian_properties, i + 1, atoms,
                      Append(properties, <<HessianTable[i].name, r.v>>), calls)

\* "self.hessian_parser.parse_file(hessian_file)" and the loop after it, with
\* h what parse_file left
hessian_parsed(h, atoms, properties, calls) ==
    IF h.raised # None THEN Raised(h.raised, calls)
    ELSE hessian_loop(h.out_parsed, 1, atoms, properties, calls)

\* the part of _parse_molecule from line 136 on; hessian_file is None when
\* the file does not exist
hessian_part(hessian_parser, hessian_file, atoms, properties, calls) ==
    IF ~hessian_parser THEN Return(atoms, Dict(properties), calls)
    ELSE IF hessian_file = None THEN Return(atoms, None, calls)
    ELSE hessian_parsed(parse_file(HessianTable, new_dims(HessianTable), hessian_file.items),
                        atoms, properties, calls)

RECURSIVE main_loop(_, _, _, _, _, _, _)
RECURSIVE main_store(_, _, _, _, _, _, _, _)

\* "for p in main_properties: ..." (lines 126-134)
main_loop(main_properties, i, atoms, properties, calls, hessian_parser, hessian_file) ==
    IF i > Len(MainTable)
    THEN hessian_part(hessian_parser, hessian_file, atoms, properties, calls)
    ELSE IF main_properties.items[i] = None THEN Return(None, None, calls)
    ELSE IF MainTable[i].name = Key("atoms")
    THEN main_loop(main_properties, i + 1,
                   Atoms(main_properties.items[i].items[1],
                         main_properties.items[i].items[2]),
                   properties,
                   Append(calls, Call("Atoms", main_properties.items[i].items)),
                   hessian_parser, hessian_file)
    ELSE main_store(main_properties, i, atoms, properties,
                    Append(calls, Call("astype", <<main_properties.items[i]>>)),
                    hessian_parser, hessian_file, astype(main_properties.items[i]))

\* "properties[p] = main_properties[p].astype(np.float32)" with r the value
\* or the exception of the right side
main_store(main_properties, i, atoms, properties, calls, hessian_parser, hessian_file, r) ==
    IF IsRaise(r) THEN Raised(r, calls)
    ELSE main_loop(main_properties, i + 1, atoms,
                   Append(properties, <<MainTable[i].name, r.v>>), calls,
                   hessian_parser, hessian_file)

\* "self.main_parser.parse_file(datafile)" and what follows, with m what
\* parse_file left
main_parsed(m, hessian_parser, hessian_file) ==
    IF m.raised # None THEN Raised(m.raised, <<>>)
    ELSE main_loop(m.out_parsed, 1, None, <<>>, <<>>, hessian_parser, hessian_file)

\* OrcaParser._parse_molecule with mask_charges = False: hessian_parser tells
\* whether self.hessian_parser is set
parse_molecule(hessian_parser, datafile, hessian_file) ==
    IF ~check_convergence(datafile) THEN Return(None, None, <<>>)
    ELSE main_parsed(parse_file(MainTable, new_dims(MainTable), datafile),
                     hessian_parser, hessian_file)

------------------------------------------------------------------------------
(* An output parser over four properties, scanning file after file *)

\* the parsers dict, in insertion order: an energy on one line, a force block
\* to a stop marker, a Hessian matrix, and shielding tensors
Table(d) ==
    << [name |-> "energy", start |-> <<"E">>, stop |-> None,
        formatters |-> Single(Formatter(Num(1), None, "vector", "float", None, None, d))],
       [name |-> "forces", start |-> <<"F">>, stop |-> Str(<<"D">>),
        formatters |-> Single(Formatter(Num(0), Num(2), "vector", "float", None, Num(-1), d))],
       [name |-> "hessian", start |-> <<"H">>, stop |-> Str(<<"V">>),
        formatters |-> Single(Formatter(None, None, "matrix", "float", Num(1), None, d))],
       [name |-> "shielding", start |-> <<"C">>, stop |-> Str(<<"Y">>),
        formatters |-> Single(Formatter(None, None, "shielding", "float", None, Num(2), d))] >>

NProps == Len(Table(None))

Defaults == { None, Num(0), Num(1) }

\* pieces of a file
Pieces ==
    << \* an energy line that lacks the value
       << <<"E">> >>,
       \* the start of a force block and one row
       << <<"F">>, <<"1", " ", "2">> >>,
       \* the stop line of the force block, and an energy line
       << <<"D">>, <<"E", " ", "7">> >>,
       \* a 2 x 2 Hessian in blocks of one column
       << <<"H">>, <<"2">>, <<"0">>, <<"0", " ", "5">>, <<"1", " ", "6">>,
          <<"1">>, <<"0", " ", "6">>, <<"1", " ", "7">>, <<"V">> >>,
       \* a 2 x 2 Hessian in a single block
       << <<"H">>, <<"2">>, <<"0", " ", "1">>, <<"0", " ", "5", " ", "6">>,
          <<"1", " ", "6", " ", "7">>, <<"V">> >> >>

MaxPieces == 2

RECURSIVE Concat(_)
Concat(ids) == IF ids = <<>> THEN <<>> ELSE Pieces[Head(ids)] \o Concat(Tail(ids))

Files == UNION {[1..n -> 1..Len(Pieces)] : n \in 0..MaxPieces}

OutputInit ==
    /\ parsers = [i \in 1..NProps |-> parser_init]
    /\ matrix_dim = [i \in 1..NProps |-> <<None>>]
    /\ out_parsed = None
    /\ raised = None
    /\ scanned = <<>>

AloneInit ==
    /\ start = <<"S">>
    /\ stop = None
    /\ read = parser_init.read
    /\ parsed = parser_init.parsed
    /\ fed = <<>>

MatrixIdle ==
    /\ mat_dim = 0
    /\ mat_width = 0
    /\ mat = <<>>
    /\ mat_out = None

FormatIdle ==
    /\ fmt = None
    /\ fmt_dim = None
    /\ fmt_dim0 = None
    /\ fmt_buffer = None
    /\ fmt_out = None
    /\ fmt_calls = 0

ReshapeIdle ==
    /\ rs_kind = "none"
    /\ rs_in = None
    /\ rs_out = None

MoleculeIdle ==
    /\ mol_hessian = FALSE
    /\ mol_sections = {}
    /\ mol_converged = FALSE
    /\ mol_hess_file = FALSE
    /\ mol_out = None

LaterIdle == FormatIdle /\ ReshapeIdle /\ MoleculeIdle

InitOutput ==
    /\ default \in Defaults
    /\ OutputInit
    /\ AloneInit
    /\ MatrixIdle
    /\ LaterIdle

ParseFile(lines) ==
    /\ \E r \in {parse_file(Table(default), matrix_dim, lines)} :
       /\ parsers' = r.parsers
       /\ matrix_dim' = r.matrix_dim
       /\ out_parsed' = r.out_parsed
       /\ raised' = r.raised
    /\ scanned' = lines
    /\ UNCHANGED <<default, aloneVars, matrixVars, laterVars>>

NextOutput == \E ids \in Files : ParseFile(Concat(ids))

SpecOutput == InitOutput /\ [][NextOutput]_vars

------------------------------------------------------------------------------
(* The matrix formatter on a matrix printed in column blocks *)

MaxDim == 4
Entries == {0, 1}

\* str(n)
RECURSIVE str_digits(_)
str_digits(n) ==
    IF n < 10 THEN <<Digits[n + 1]>>
    ELSE str_digits(n \div 10) \o <<Digits[(n % 10) + 1]>>

str(n) == IF n < 0 THEN <<"-">> \o str_digits(0 - n) ELSE str_digits(n)

\* " ".join(str(x) for x in xs)
RECURSIVE join(_)
join(xs) ==
    IF xs = <<>> THEN <<>>
    ELSE IF Len(xs) = 1 THEN str(xs[1])
    ELSE str(xs[1]) \o <<" ">> \o join(Tail(xs))

\* the symmetric d x d matrices over Entries, as sequences of rows
UpperTriangle(d) == {p \in (1..d) \X (1..d) : p[1] <= p[2]}
Symmetric(d) ==
    { [i \in 1..d |-> [j \in 1..d |-> IF i <= j THEN u[<<i, j>>] ELSE u[<<j, i>>]]] :
        u \in [UpperTriangle(d) -> Entries] }

\* one block: a header line of the column indices c0..c1, then d data rows,
\* each the row index and the row's entries in those columns (indices from 0)
Block(m, d, c0, c1) ==
    <<join([k \in 1..(c1 - c0 + 1) |-> c0 + k - 1])>> \o
    [i \in 1..d |->
        join(<<i - 1>> \o [k \in 1..(c1 - c0 + 1) |-> m[i][c0 + k]])]

\* the blocks of width w, the last one narrower when w does not divide d
RECURSIVE Blocks(_, _, _, _)
Blocks(m, d, w, c0) ==
    IF c0 >= d THEN <<>>
    ELSE Block(m, d, c0, Min(c0 + w, d) - 1) \o Blocks(m, d, w, c0 + w)

Printed == Blocks(mat, mat_dim, mat_width, 0)

\* a formatter as OrcaFormatter(None, datatype="matrix") makes it
MatrixFormatter == Formatter(None, None, "matrix", "float", None, None, None)

InitMatrix ==
    /\ mat_dim \in 2..MaxDim
    /\ mat_width \in 1..(mat_dim - 1)
    /\ mat \in Symmetric(mat_dim)
    /\ mat_out = None
    /\ default = None
    /\ OutputInit
    /\ AloneInit
    /\ LaterIdle

FormatMatrix ==
    /\ mat_out = None
    /\ mat_out' = format(MatrixFormatter, List(Printed), None)
    /\ UNCHANGED <<mat_dim, mat_width, mat, aloneVars, outputVars, laterVars>>

NextMatrix == FormatMatrix

SpecMatrix == InitMatrix /\ [][NextMatrix]_vars

\* C5 (matrix round trip): for every dimension d and block width w < d, the
\* matrix formatter gives back the d x d matrix that was printed.
C5_MatrixRoundTrip ==
    mat_out # None =>
        mat_out.result = Ok(Array(<<mat_dim, mat_dim>>, "float", mat))

\* the same, for the widths that do not divide d, and the width 1
C5_RoundTripNarrowLastBlock ==
    (mat_out # None /\ (mat_dim % mat_width # 0 \/ mat_width = 1)) =>
        mat_out.result = Ok(Array(<<mat_dim, mat_dim>>, "float", mat))

------------------------------------------------------------------------------
(* One formatter on its own, called on buffer after buffer *)

MaxCalls == 2

\* formatters of the 'vector' datatype
VectorFormatters ==
    { Formatter(Num(p), s, "vector", c, k, u, d) :
        p \in {0, 1}, s \in {None, Num(2), Num(3)}, c \in {"float", "str"},
        k \in {None, Num(1)}, u \in {None, Num(-1), Num(2)}, d \in {None, Num(1)} }

\* formatters of the other datatypes, and of a datatype format does not know
OtherFormatters ==
    { Formatter(None, None, t, "float", k, u, d) :
        t \in {"matrix", "shielding", "tensor"},
        k \in {None, Num(1)}, u \in {None, Num(-1), Num(2)}, d \in {None, Num(1)} }

Formatters == VectorFormatters \cup OtherFormatters

\* buffers of rows of numbers
VectorBuffers ==
    { << join(<<1, 2, 3>>) >>,
      << join(<<1, 2, 3>>), join(<<4, 5, 6>>) >>,
      << join(<<7>>) >>,
      << join(<<1, 2>>) >>,
      << join(<<1, 2, 3>>), join(<<4, 5>>) >> }

\* a 2 x 2 matrix in two blocks of one column, and in a single block
MatrixBuffers ==
    { << join(<<0>>), join(<<0, 5>>), join(<<1, 6>>),
         join(<<1>>), join(<<0, 6>>), join(<<1, 7>>) >>,
      << join(<<0, 1>>), join(<<0, 5, 6>>), join(<<1, 6, 7>>) >> }

\* shielding sections: one sub-block; an opening line inside an open
\* sub-block; lines outside, a closing line outside and a sub-block left
\* open; two sub-blocks
ShieldingBuffers ==
    { << ShieldingOpen, join(<<1, 2>>), ShieldingClose >>,
      << ShieldingOpen, join(<<1>>), ShieldingOpen, join(<<2>>), ShieldingClose >>,
      << join(<<9>>), ShieldingOpen, join(<<1>>), ShieldingClose, ShieldingClose,
         ShieldingOpen, join(<<2>>) >>,
      << ShieldingOpen, join(<<1>>), ShieldingClose,
         ShieldingOpen, join(<<2>>), ShieldingClose >> }

\* the arguments of format: None, an empty list, a list of lines
FormatBuffers ==
    {None, List(<<>>)} \cup
    {List(b) : b \in VectorBuffers \cup MatrixBuffers \cup ShieldingBuffers}

InitFormat ==
    /\ fmt \in Formatters
    /\ fmt_dim = None
    /\ fmt_dim0 = None
    /\ fmt_buffer = None
    /\ fmt_out = None
    /\ fmt_calls = 0
    /\ default = None
    /\ OutputInit
    /\ AloneInit
    /\ MatrixIdle
    /\ ReshapeIdle
    /\ MoleculeIdle

Format(buffer) ==
    /\ fmt_calls < MaxCalls
    /\ \E r \in {format(fmt, buffer, fmt_dim)} :
          /\ fmt_out' = r.result
          /\ fmt_dim' = r.matrix_dim
    /\ fmt_dim0' = fmt_dim
    /\ fmt_buffer' = buffer
    /\ fmt_calls' = fmt_calls + 1
    /\ UNCHANGED <<fmt, aloneVars, outputVars, matrixVars, reshapeVars, moleculeVars>>

NextFormat == \E buffer \in FormatBuffers : Format(buffer)

SpecFormat == InitFormat /\ [][NextFormat]_vars

\* format was called
FmtCalled == fmt_calls > 0

\* the lines of the buffer of the last call that are left after skip_first
FmtLines ==
    IF fmt_buffer = None THEN <<>>
    ELSE IF fmt.skip_first = None THEN fmt_buffer.items
    ELSE SubSeq(fmt_buffer.items, fmt.skip_first.v + 1, Len(fmt_buffer.items))

\* the last call returned an array
FmtArray == fmt_out.tag = "ok" /\ fmt_out.v.tag = "array"

\* C11 (unrecognized datatype is never swallowed): a formatter whose datatype
\* is none of vector, matrix, shielding raises the configuration error on
\* every format call, whatever the buffer.
C11_UnrecognizedRaises ==
    (FmtCalled /\ fmt.datatype \notin {"vector", "matrix", "shielding"}) =>
        fmt_out = Raise("NotImplementedError")

\* no line after the first header has a token count other than that of the
\* first data row
NoDimensionRow(lines) ==
    \A i \in 2..Len(lines) : Len(split(lines[i])) = Len(split(lines[2]))

\* C12 (malformed matrix block fails deterministically): the matrix formatter,
\* given lines without a dimension-defining row, returns no array, whatever
\* it formatted before.
C12_MalformedMatrixFails ==
    (/\ FmtCalled
     /\ fmt.datatype = "matrix"
     /\ FmtLines # <<>>
     /\ NoDimensionRow(FmtLines)) => ~FmtArray

\* the number of tokens of the i-th line from position up to the stop column
TokensInRange(i) ==
    LET have == Len(split(FmtLines[i]))
        upto == IF fmt.stop.v <= have THEN fmt.stop.v ELSE have
    IN IF upto > fmt.position.v THEN upto - fmt.position.v ELSE 0

\* C13 (vector shape rule) as the specification words it: over n >= 1 lines
\* a vector formatter without a stop column gives shape (n); with one it gives
\* (n, stop - position), except that a single row of more than one element
\* gives (stop - position).
C13_ShapeByStopColumn ==
    (FmtCalled /\ fmt.datatype = "vector" /\ FmtLines # <<>> /\ FmtArray) =>
        LET n == Len(FmtLines)
            cols == fmt.stop.v - fmt.position.v
        IN fmt_out.v.shape =
               IF fmt.stop = None THEN <<n>>
               ELSE IF n = 1 /\ cols > 1 THEN <<cols>>
               ELSE <<n, cols>>

\* C13 amended: the number of columns is the number c of tokens each line has
\* from position up to the stop column, which is stop - position for lines of
\* at least stop tokens; a single row gives (c) unless c = 1; lines that
\* differ in c give no rectangular array.
C13_ShapeByTokens ==
    (FmtCalled /\ fmt.datatype = "vector" /\ FmtLines # <<>> /\ fmt_out.tag = "ok") =>
        LET n == Len(FmtLines) IN
        IF fmt.stop = None THEN FmtArray /\ fmt_out.v.shape = <<n>>
        ELSE IF \A i \in 1..n : TokensInRange(i) = TokensInRange(1)
        THEN /\ FmtArray
             /\ fmt_out.v.shape =
                    IF n = 1 /\ TokensInRange(1) # 1 THEN <<TokensInRange(1)>>
                    ELSE <<n, TokensInRange(1)>>
             /\ (\A i \in 1..n : Len(split(FmtLines[i])) >= fmt.stop.v) =>
                    TokensInRange(1) = fmt.stop.v - fmt.position.v
        ELSE fmt_out.v.tag = "ragged"

\* the line "7" with position 0 and stop column 2: one row of one element,
\* which is left as the array [[7]]
C13_Witness ==
    /\ FmtCalled
    /\ fmt.datatype = "vector"
    /\ fmt.position = Num(0)
    /\ fmt.stop = Num(2)
    /\ fmt.unit = None
    /\ FmtLines = << <<"7">> >>
    /\ fmt_out = Ok(Array(<<1, 1>>, "float", << <<7>> >>))

\* the same formatter without a unit
WithoutUnit == [fmt EXCEPT !.unit = None]

\* C16 (unit scaling): when a formatter with a unit returns an array for a
\* non-empty buffer, the array has the shape of, and each element is the unit
\* times the element of, the array the formatter without the unit returns.
C16_UnitScaling ==
    (FmtCalled /\ fmt.unit # None /\ FmtLines # <<>> /\ FmtArray) =>
        LET plain == format(WithoutUnit, fmt_buffer, fmt_dim0).result
            depth == Len(fmt_out.v.shape)
        IN /\ plain.tag = "ok"
           /\ plain.v.tag = "array"
           /\ fmt_out.v.shape = plain.v.shape
           /\ Len(ravel(fmt_out.v.data, depth)) = Product(plain.v.shape)
           /\ \A i \in 1..Product(plain.v.shape) :
                  ravel(fmt_out.v.data, depth)[i] = fmt.unit.v * ravel(plain.v.data, depth)[i]

\* two lines "1 2 3" and "4 5 6" with position 0, stop column 2 and the
\* unit -1 give [[-1, -2], [-4, -5]]
C16_Witness ==
    /\ FmtCalled
    /\ fmt.datatype = "vector"
    /\ fmt.unit = Num(-1)
    /\ fmt.position = Num(0)
    /\ fmt.stop = Num(2)
    /\ Len(FmtLines) = 2
    /\ fmt_out = Ok(Array(<<2, 2>>, "float", << <<-1, -2>>, <<-4, -5>> >>))

\* C18 (empty window resolves to absent): for a buffer that is a list with no
\* line left after skip_first, format returns None, for every datatype and
\* with or without a default; for the buffer None it returns the one-element
\* array of the default, or None without a default.
C18_EmptyWindowAbsent ==
    FmtCalled =>
        /\ (fmt_buffer # None /\ FmtLines = <<>>) =>
               (fmt_out = Ok(None) /\ fmt_dim = fmt_dim0)
        /\ fmt_buffer = None =>
               fmt_out = Ok(IF fmt.default = None THEN None
                            ELSE Array(<<1>>, "float", <<fmt.default.v>>))

\* a formatter with a default and skip_first = 1, called on a window of one
\* line, returned None
C18_Witness ==
    /\ FmtCalled
    /\ fmt.default # None
    /\ fmt.skip_first = Num(1)
    /\ fmt_buffer # None
    /\ Len(fmt_buffer.items) = 1
    /\ fmt_out = Ok(None)

\* the opening lines that a closing line follows, in order
RECURSIVE ClosedOpeners(_, _)
ClosedOpeners(lines, i) ==
    IF i > Len(lines) THEN <<>>
    ELSE IF /\ startswith(lines[i], ShieldingOpen)
            /\ \E j \in (i + 1)..Len(lines) : startswith(lines[j], ShieldingClose)
         THEN <<i>> \o ClosedOpeners(lines, i + 1)
         ELSE ClosedOpeners(lines, i + 1)

\* the first closing line after the i-th line
CloserOf(lines, i) ==
    CHOOSE j \in (i + 1)..Len(lines) :
        /\ startswith(lines[j], ShieldingClose)
        /\ \A k \in (i + 1)..(j - 1) : ~startswith(lines[k], ShieldingClose)

\* C19 (shielding sub-block scanner): the shielding formatter emits one block
\* for each opening line that a closing line follows, and the block holds the
\* lines strictly between that opening line and its closing line, in order.
C19_ShieldingBlocks ==
    (FmtCalled /\ fmt.datatype = "shielding" /\ fmt.unit = None /\ FmtLines # <<>>) =>
        LET openers == ClosedOpeners(FmtLines, 1) IN
        /\ fmt_out.tag = "ok"
        /\ Len(fmt_out.v.data) = Len(openers)
        /\ \A b \in 1..Len(openers) :
              LET between == SubSeq(FmtLines, openers[b] + 1,
                                    CloserOf(FmtLines, openers[b]) - 1)
              IN /\ Len(fmt_out.v.data[b]) = Len(between)
                 /\ \A r \in 1..Len(between) :
                        Ok(fmt_out.v.data[b][r]) = convert_all("float", split(between[r]), <<>>)

------------------------------------------------------------------------------
(* The tensor reconstruction functions on arrays of 3N rows *)

MaxAtoms == 2

\* the values a changed element takes
Changed == {0, -1}

\* a (rows, cols) array of distinct increasing values
Increasing(rows, cols) ==
    [r \in 1..rows |-> [c \in 1..cols |-> (r - 1) * cols + c]]

\* the arrays of distinct increasing values, and those with one element changed
Inputs(rows, cols) ==
    {Array(<<rows, cols>>, "float", Increasing(rows, cols))} \cup
    {Array(<<rows, cols>>, "float", [Increasing(rows, cols) EXCEPT ![r][c] = v]) :
        r \in 1..rows, c \in 1..cols, v \in Changed}

InitReshape ==
    /\ rs_kind \in {"dipole_derivatives", "polarizability_derivatives"}
    /\ \E N \in 1..MaxAtoms :
          rs_in \in Inputs(3 * N, IF rs_kind = "dipole_derivatives" THEN 3 ELSE 6)
    /\ rs_out = None
    /\ default = None
    /\ OutputInit
    /\ AloneInit
    /\ MatrixIdle
    /\ FormatIdle
    /\ MoleculeIdle

FormatDipoleDerivatives ==
    /\ rs_kind = "dipole_derivatives"
    /\ rs_out = None
    /\ rs_out' = format_dipole_derivatives(rs_in)
    /\ UNCHANGED <<rs_kind, rs_in, aloneVars, outputVars, matrixVars, formatVars, moleculeVars>>

FormatPolarizabilityDerivatives ==
    /\ rs_kind = "polarizability_derivatives"
    /\ rs_out = None
    /\ rs_out' = format_polarizability_derivatives(rs_in)
    /\ UNCHANGED <<rs_kind, rs_in, aloneVars, outputVars, matrixVars, formatVars, moleculeVars>>

NextReshape == FormatDipoleDerivatives \/ FormatPolarizabilityDerivatives

SpecReshape == InitReshape /\ [][NextReshape]_vars

\* the number of atoms of the argument
Atoms3N == rs_in.shape[1] \div 3

\* C14 (dipole-derivative reshape): a (3N, 3) argument gives an (N, 3, 3)
\* array with output[k, j, c] = input[3k + j, c] for all k < N and j, c < 3.
C14_DipoleReshape ==
    (rs_kind = "dipole_derivatives" /\ rs_out # None) =>
        /\ rs_out.tag = "ok"
        /\ rs_out.v.tag = "array"
        /\ rs_out.v.shape = <<Atoms3N, 3, 3>>
        /\ Len(rs_out.v.data) = Atoms3N
        /\ \A k \in 0..(Atoms3N - 1) :
              /\ Len(rs_out.v.data[k + 1]) = 3
              /\ \A j \in 0..2 :
                    /\ Len(rs_out.v.data[k + 1][j + 1]) = 3
                    /\ \A c \in 0..2 :
                          rs_out.v.data[k + 1][j + 1][c + 1] = rs_in.data[3 * k + j + 1][c + 1]

\* a (6, 3) argument of the values 1..18: output[1, 2, 0] is input[5, 0] = 16
C14_Witness ==
    /\ rs_kind = "dipole_derivatives"
    /\ rs_in = Array(<<6, 3>>, "float", Increasing(6, 3))
    /\ rs_out # None
    /\ rs_out.v.data[2][3][1] = 16

\* the place of (i, j), i <= j, in the upper triangle in row-major order:
\* (0,0),(0,1),(0,2),(1,1),(1,2),(2,2) -> 0..5
UpperPlace(i, j) == IF i = 0 THEN j ELSE IF i = 1 THEN j + 2 ELSE 5

\* C15 (polarizability-derivative reconstruction is symmetric): a (3N, 6)
\* argument gives an (N, 3, 3, 3) array with output[k, d, i, j] =
\* output[k, d, j, i] = input[3k + d, t(i, j)] for all k, d and i <= j.
C15_PolarizabilitySymmetric ==
    (rs_kind = "polarizability_derivatives" /\ rs_out # None) =>
        /\ rs_out.tag = "ok"
        /\ rs_out.v.tag = "array"
        /\ rs_out.v.shape = <<Atoms3N, 3, 3, 3>>
        /\ Len(rs_out.v.data) = Atoms3N
        /\ \A k \in 0..(Atoms3N - 1) : \A d \in 0..2 :
              \A i \in 0..2 : \A j \in i..2 :
                  /\ rs_out.v.data[k + 1][d + 1][i + 1][j + 1] =
                         rs_in.data[3 * k + d + 1][UpperPlace(i, j) + 1]
                  /\ rs_out.v.data[k + 1][d + 1][j + 1][i + 1] =
                         rs_in.data[3 * k + d + 1][UpperPlace(i, j) + 1]

\* a (6, 6) argument of the values 1..36: output[1, 0, 2, 1] and
\* output[1, 0, 1, 2] are input[3, 4] = 23
C15_Witness ==
    /\ rs_kind = "polarizability_derivatives"
    /\ rs_in = Array(<<6, 6>>, "float", Increasing(6, 6))
    /\ rs_out # None
    /\ rs_out.v.data[2][1][3][2] = 23
    /\ rs_out.v.data[2][1][2][3] = 23

------------------------------------------------------------------------------
(* _parse_molecule on the files of one molecule *)

MainSections == {"energy", "forces", "atoms"}
HessianSections == {"hessian", "dipole_derivatives", "polarizability_derivatives"}

\* the lines of a section of the main file and of the Hessian file
SectionLines ==
    [energy |-> << MainStarts.energy \o <<" ">> \o join(<<7>>) >>,
     forces |-> << MainStarts.forces, join(<<1, 6, 0, 1, 2, 3>>), MainStops.forces.s >>,
     atoms |-> << MainStarts.atoms, <<"H", " ">> \o join(<<0, 0, 1>>),
                  MainStops.atoms.s >>,
     hessian |-> << HessianStarts.hessian, join(<<2>>),
                    join(<<0>>), join(<<0, 5>>), join(<<1, 6>>),
                    join(<<1>>), join(<<0, 6>>), join(<<1, 7>>),
                    HessianStops.hessian.s >>,
     dipole_derivatives |->
                 << HessianStarts.dipole_derivatives, join(<<3>>),
                    join(<<1, 2, 3>>), join(<<4, 5, 6>>), join(<<7, 8, 9>>), <<"#">> >>,
     polarizability_derivatives |->
                 << HessianStarts.polarizability_derivatives, join(<<3>>),
                    join(<<1, 2, 3, 4, 5, 6>>), join(<<2, 3, 4, 5, 6, 7>>),
                    join(<<3, 4, 5, 6, 7, 8>>), <<"#">> >>]

\* the sections of the file that are there, in the order of the file
RECURSIVE FileOf(_)
FileOf(order) ==
    IF order = <<>> THEN <<>>
    ELSE (IF Head(order) \in mol_sections THEN SectionLines[Head(order)] ELSE <<>>)
         \o FileOf(Tail(order))

\* the main file: its sections, the flag when the run converged, a last line
MainFile ==
    FileOf(<<"atoms", "forces", "energy">>) \o
    << IF mol_converged THEN Terminated ELSE <<"a", "b", "o", "r", "t">>,
       <<"T", "O", "T", "A", "L", " ", "R", "U", "N", " ", "T", "I", "M", "E">> >>

\* the Hessian file, or None when it does not exist
HessianFile ==
    IF mol_hess_file
    THEN List(FileOf(<<"hessian", "dipole_derivatives", "polarizability_derivatives">>))
    ELSE None

InitMolecule ==
    /\ mol_hessian \in BOOLEAN
    /\ mol_sections \in SUBSET (MainSections \cup HessianSections)
    /\ mol_converged \in BOOLEAN
    /\ mol_hess_file \in BOOLEAN
    /\ mol_out = None
    /\ default = None
    /\ OutputInit
    /\ AloneInit
    /\ MatrixIdle
    /\ FormatIdle
    /\ ReshapeIdle

ParseMolecule ==
    /\ mol_out = None
    /\ mol_out' = parse_molecule(mol_hessian, MainFile, HessianFile)
    /\ UNCHANGED <<mol_hessian, mol_sections, mol_converged, mol_hess_file,
                   aloneVars, outputVars, matrixVars, formatVars, reshapeVars>>

NextMolecule == ParseMolecule

SpecMolecule == InitMolecule /\ [][NextMolecule]_vars

\* the requested properties whose section the scanned files do not hold
MissingMain == MainSections \ mol_sections
MissingHessian ==
    IF mol_hessian /\ mol_hess_file THEN HessianSections \ mol_sections ELSE {}

\* C20 (absent results make the molecule be skipped): when the run converged
\* and a requested property is absent after the scan, _parse_molecule raises
\* nothing and returns properties = None, with atoms = None when the property
\* is one of the main file; no call of Atoms, astype or a tensor
\* reconstruction function has None for an argument, and no value of the
\* returned properties is None.
C20_AbsentSkipsMolecule ==
    (mol_out # None /\ mol_converged) =>
        /\ (MissingMain # {} \/ MissingHessian # {}) =>
               (mol_out.raised = None /\ mol_out.properties = None)
        /\ MissingMain # {} => mol_out.atoms = None
        /\ \A c \in 1..Len(mol_out.calls) :
               \A a \in 1..Len(mol_out.calls[c].args) : mol_out.calls[c].args[a] # None
        /\ mol_out.properties # None =>
               \A q \in 1..Len(mol_out.properties.items) :
                   mol_out.properties.items[q][2] # None

\* with every section in the files, the molecule is returned with its atoms
\* and its five properties
C20_Complete ==
    (/\ mol_out # None /\ mol_converged /\ mol_hessian /\ mol_hess_file
     /\ MissingMain = {} /\ MissingHessian = {}) =>
        /\ mol_out.raised = None
        /\ mol_out.atoms # None
        /\ Len(mol_out.properties.items) = 5

------------------------------------------------------------------------------
(* One parser on its own, fed arbitrary lines *)

MaxFed == 6

Lines ==
    { <<" ">>,
      <<"-", "-", "-", "-">>,
      <<" ", "-", "-", "-", "-", "-", "-", "-", "-", "-", "-">>,
      <<"S">>,
      <<"T">>,
      <<"a">>,
      <<"b">> }

Starts == { <<"S">> }
Stops == { None, Str(<<"T">>), List(<< <<"T">>, <<"b">>, <<"S">> >>) }

Init ==
    /\ start \in Starts
    /\ stop \in Stops
    /\ read = parser_init.read
    /\ parsed = parser_init.parsed
    /\ fed = <<>>
    /\ default = None
    /\ OutputInit
    /\ MatrixIdle
    /\ LaterIdle

Reset ==
    /\ read' = reset.read
    /\ parsed' = reset.parsed
    /\ fed' = <<>>
    /\ UNCHANGED <<start, stop, outputVars, matrixVars, laterVars>>

ParseLine(line) ==
    /\ Len(fed) < MaxFed
    /\ LET self == parse_line([read |-> read, parsed |-> parsed], start, stop, line) IN
       /\ read' = self.read
       /\ parsed' = self.parsed
    /\ fed' = Append(fed, line)
    /\ UNCHANGED <<start, stop, outputVars, matrixVars, laterVars>>

Next ==
    \/ Reset
    \/ \E line \in Lines : ParseLine(line)

Spec == Init /\ [][Next]_vars

------------------------------------------------------------------------------
(* What a fed line is, in the words of the specification *)

\* the line's stripped text begins with the start marker
IsStartLine(line) == startswith(strip(line), start)

\* the line's stripped text begins with a stop marker
IsStopLine(line) ==
    /\ stop # None
    /\ IF stop.tag = "list"
       THEN \E i \in 1..Len(stop.items) : startswith(strip(line), stop.items[i])
       ELSE startswith(strip(line), stop.s)

\* a blank line
IsBlankLine(line) == strip(line) = <<>>

\* a line of dashes, of any length
IsDashLine(line) ==
    /\ strip(line) # <<>>
    /\ \A i \in 1..Len(strip(line)) : strip(line)[i] = "-"

\* a line that begins with the nine-dash run
IsRuleLine(line) == startswith(strip(line), Dashes)

StartsFed == {i \in 1..Len(fed) : IsStartLine(fed[i])}
LastStart == CHOOSE i \in StartsFed : \A j \in StartsFed : j <= i
StopsAfterLastStart == {j \in (LastStart + 1)..Len(fed) : IsStopLine(fed[j])}
FirstStop == CHOOSE j \in StopsAfterLastStart : \A k \in StopsAfterLastStart : j <= k

RECURSIVE Stripped(_)
Stripped(ls) == IF ls = <<>> THEN <<>> ELSE <<strip(Head(ls))>> \o Stripped(Tail(ls))

RECURSIVE WithoutSkipped(_)
WithoutSkipped(ls) ==
    IF ls = <<>> THEN <<>>
    ELSE IF IsBlankLine(Head(ls)) \/ IsRuleLine(Head(ls))
         THEN WithoutSkipped(Tail(ls))
         ELSE <<Head(ls)>> \o WithoutSkipped(Tail(ls))

\* the lines after the last start line, up to the first stop line that follows it
WindowOfFed ==
    IF StartsFed = {} THEN None
    ELSE IF stop = None THEN List(<<strip(fed[LastStart])>>)
    ELSE LET last == IF StopsAfterLastStart = {} THEN Len(fed) ELSE FirstStop - 1
         IN List(Stripped(WithoutSkipped(SubSeq(fed, LastStart + 1, last))))

------------------------------------------------------------------------------
\* C1 (window exclusivity): with a stop marker, no line of the buffer begins
\* with the start marker or with a stop marker; without one the buffer, once
\* it exists, holds exactly one line and that line begins with the start marker.
C1_WindowExclusivity ==
    parsed # None =>
        IF stop = None
        THEN Len(parsed.items) = 1 /\ IsStartLine(parsed.items[1])
        ELSE \A i \in 1..Len(parsed.items) :
                ~IsStartLine(parsed.items[i]) /\ ~IsStopLine(parsed.items[i])

\* a window of two lines that a stop line has closed
C1_Witness ==
    /\ stop # None
    /\ parsed # None
    /\ ~read
    /\ Len(parsed.items) = 2
    /\ Len(fed) = 4
    /\ IsStopLine(fed[4])

\* C2 (restart on repeat): after any lines the buffer holds exactly the lines
\* collected after the last start line, up to the first stop line after it.
C2_RestartOnRepeat == parsed = WindowOfFed

\* START, a, a, START, b, STOP leaves the buffer [b]
C2_Witness ==
    /\ start = <<"S">>
    /\ stop = Str(<<"T">>)
    /\ fed = << <<"S">>, <<"a">>, <<"a">>, <<"S">>, <<"b">>, <<"T">> >>
    /\ parsed = List(<< <<"b">> >>)

\* the line the step feeds, when the step is a parse_line
FedNow == fed'[Len(fed')]
IsFeed == fed' # <<>> /\ Len(fed') = Len(fed) + 1

\* C3 (separator transparency) as the specification words it: a line of
\* dashes ("----") or a blank line fed inside an open window changes neither
\* the buffer nor the mode.
C3_AnyDashLineTransparent ==
    [][(IsFeed /\ read /\ (IsDashLine(FedNow) \/ IsBlankLine(FedNow)))
        => (parsed' = parsed /\ read')]_vars

\* C3 amended: a line that begins with at least nine dashes, or a blank line,
\* fed inside an open window changes neither the buffer nor the mode.
C3_RuleLineTransparent ==
    [][(IsFeed /\ read /\ (IsRuleLine(FedNow) \/ IsBlankLine(FedNow)))
        => (parsed' = parsed /\ read')]_vars

\* a rule line was fed into an open window that already held a line
C3_Witness ==
    /\ read
    /\ Len(fed) >= 3
    /\ IsRuleLine(fed[Len(fed)])
    /\ ~IsStartLine(fed[Len(fed) - 1])
    /\ Len(parsed.items) >= 1

\* C9 (state invariant): the buffer exists iff a start line was fed since the
\* last reset; the parser is collecting iff it has a stop marker and the last
\* start line since the reset has not been followed by a stop line.
C9_StateInvariant ==
    /\ (parsed # None) <=> (StartsFed # {})
    /\ read <=> (stop # None /\ StartsFed # {} /\ StopsAfterLastStart = {})
    /\ read => parsed # None

\* a window was closed by a stop line and a later start line has opened a new
\* one, which is still open
C9_Witness ==
    /\ read
    /\ parsed # None
    /\ \E i \in StartsFed : \E j \in (i + 1)..Len(fed) :
          IsStopLine(fed[j]) /\ ~IsStartLine(fed[j]) /\ j < LastStart

\* the parser's fields before the step
SelfNow == [read |-> read, parsed |-> parsed]

\* the stop markers of a list of stop markers
StopMarkers == {stop.items[i] : i \in 1..Len(stop.items)}

\* C17 (line-rule priority): a fed line is passed over when blank or a rule
\* line; else, when it begins with the start marker, it restarts the window,
\* whether or not the parser is collecting and the line begins with a stop
\* marker too; else, when the parser is collecting, a line that begins with a
\* stop marker closes the window and is not appended, and any other line is
\* appended; else nothing changes.  With a list of stop markers, a line that
\* begins with one of them is handled as with that marker as the only stop.
C17_LineRulePriority ==
    [][IsFeed =>
        /\ IF IsBlankLine(FedNow) \/ IsRuleLine(FedNow)
           THEN parsed' = parsed /\ read' = read
           ELSE IF IsStartLine(FedNow)
           THEN /\ read' = (stop # None)
                /\ parsed' = List(IF stop = None THEN <<strip(FedNow)>> ELSE <<>>)
           ELSE IF read /\ IsStopLine(FedNow)
           THEN parsed' = parsed /\ ~read'
           ELSE IF read
           THEN parsed' = List(Append(parsed.items, strip(FedNow))) /\ read'
           ELSE parsed' = parsed /\ read' = read
        /\ (stop # None /\ stop.tag = "list") =>
               \A m \in StopMarkers :
                   startswith(strip(FedNow), m) =>
                       [read |-> read', parsed |-> parsed'] =
                           parse_line(SelfNow, start, Str(m), FedNow)]_vars

\* with the stop markers T, b and S and the start marker S: a window that
\* held a line was restarted by a line S, which begins with a stop marker too,
\* and the new window was then closed by a line b, which was not appended
C17_Witness ==
    /\ stop # None
    /\ stop.tag = "list"
    /\ fed = << <<"S">>, <<"a">>, <<"S">>, <<"a">>, <<"b">> >>
    /\ IsStartLine(fed[3]) /\ IsStopLine(fed[3])
    /\ ~read
    /\ parsed = List(<< <<"a">> >>)

------------------------------------------------------------------------------
(* The output parser after a parse_file call *)

Called == out_parsed # None
TableNow == Table(default)
FreshDims == [i \in 1..NProps |-> <<None>>]

\* what the i-th parser's get_parsed gives in this state
FormatsTo(i) == get_parsed(TableNow[i].formatters, parsers[i].parsed, matrix_dim[i]).result

\* no line of the scanned file begins with the i-th parser's start marker
NoStartLine(i) ==
    \A k \in 1..Len(scanned) : ~startswith(strip(scanned[k]), TableNow[i].start)

\* the fields of a parser that alone is fed the lines, in order
RECURSIVE FedAlone(_, _, _)
FedAlone(self, entry, lines) ==
    IF lines = <<>> THEN self
    ELSE FedAlone(parse_line(self, entry.start, entry.stop, Head(lines)), entry, Tail(lines))

Reversed(seq) == [i \in 1..Len(seq) |-> seq[Len(seq) + 1 - i]]

\* C4 (no state leaks across files): what parse_file leaves for a file is what
\* a new output parser leaves for that file, whatever was scanned before.
C4_NoStateLeak ==
    Called =>
        LET fresh == parse_file(TableNow, FreshDims, scanned) IN
        /\ out_parsed = fresh.out_parsed
        /\ raised = fresh.raised

\* C6 (malformed input is isolated): parse_file completes, a property whose
\* window cannot be formatted is absent, and every other property has its
\* formatted array.
C6_MalformedIsolated ==
    Called =>
        /\ raised = None
        /\ Len(out_parsed.items) = NProps
        /\ \A i \in 1..NProps :
              out_parsed.items[i] =
                  IF IsRaise(FormatsTo(i)) THEN None ELSE FormatsTo(i).v

\* C7 (no partially filled result): a property with a stop marker whose window
\* is still open when the file ends, with lines collected, is absent or a
\* failure is reported; no array is returned for it.
C7_NoPartialResult ==
    Called =>
        \A i \in 1..NProps :
            (/\ TableNow[i].stop # None
             /\ parsers[i].read
             /\ parsers[i].parsed # None
             /\ parsers[i].parsed.items # <<>>)
            => \/ raised # None
               \/ (i <= Len(out_parsed.items) /\ out_parsed.items[i] = None)

\* C8 (extractor independence): after the pass each parser has the mode and
\* buffer it reaches when it alone is fed the same lines, and the order of
\* the parsers in the dict changes nothing.
C8_Independence ==
    \A i \in 1..NProps :
        /\ parsers[i] = FedAlone(reset, TableNow[i], scanned)
        /\ parsers[i] =
               scan_loop(Reversed(TableNow), reset_all(TableNow), scanned)[NProps + 1 - i]

\* the force window is still open and has collected the lines of a Hessian
\* section, which the Hessian parser has collected too
C8_Witness ==
    /\ Called
    /\ parsers[2].read
    /\ parsers[3].parsed # None
    /\ ~parsers[3].read
    /\ Len(parsers[3].parsed.items) >= 2
    /\ Len(parsers[2].parsed.items) > Len(parsers[3].parsed.items)

\* the result of a property whose start marker is not in the file
ExpectedAbsent ==
    IF default = None THEN None ELSE Array(<<1>>, "float", <<default.v>>)

\* C10 (missing property): a parser whose start marker begins no line of the
\* file keeps an absent buffer, and its result is the one-element array of the
\* default, or None without a default; it is a value, not an exception.
C10_MissingProperty ==
    Called =>
        \A i \in 1..NProps :
            NoStartLine(i) =>
                /\ parsers[i].parsed = None
                /\ FormatsTo(i) = Ok(ExpectedAbsent)
                /\ (i <= Len(out_parsed.items) => out_parsed.items[i] = ExpectedAbsent)

\* a file with forces and no Hessian, scanned with a default of 0: the
\* Hessian and the shielding are the array [0]
C10_Witness ==
    /\ Called
    /\ default = Num(0)
    /\ raised = None
    /\ ~NoStartLine(2)
    /\ NoStartLine(3)
    /\ out_parsed.items[3] = Array(<<1>>, "float", <<0>>)
    /\ out_parsed.items[4] = Array(<<1>>, "float", <<0>>)

====
